---- MODULE Spec2Model ----
(***************************************************************************)
(* Verification model of the bitwise rule engine.                          *)
(*                                                                         *)
(*   if-test/src/main.rs        rule model, to_bits, eval_rules_naive,      *)
(*                              eval_rules_mask and the demo's main         *)
(*   logicbits_macros/src/lib.rs the KitchenNightmares derive: register,    *)
(*                              the generated __Pred::mask,                 *)
(*                              pred_mask_by_name and to_bits               *)
(*   runner/src/main.rs         the policy compilation in main              *)
(*                                                                         *)
(* Rust's zero-based Vec and array indices are kept: a row is a function    *)
(* on 0..N_PRED-1; a Vec is a TLA+ sequence whose element k (1-based) is    *)
(* the Vec's element k-1.                                                   *)
(***************************************************************************)
EXTENDS Integers, Sequences, FiniteSets, TLC

\* ---------------------------------------------------------------- bounds
\* N_PRED is the demo's tunable (32 in the source); it is kept small here
\* so that every row and every index list over it is enumerated.
N_PRED == 3
\* number of rules of a rule set (N_RULES is 64 in the source)
MaxRules == 3
\* number of terms of a whole rule set
MaxTerms == 3
\* length of a hand-built req_idx or forb_idx list
MaxLen == 2
\* number of #[yuck(..)] field attributes of a derived struct
MaxAttrs == 4
\* number of names in the all or the none list of a policy
MaxPolicyLen == 2

\* ------------------------------------------------------ program constants
\* width of the u64 bitset
BitsetWidth == 64

VARIABLES
    phase,       \* position of if-test's main
    rules,       \* Vec<Rule> built by gen_rules
    row,         \* the event row [bool; N_PRED] under evaluation
    bitset,      \* to_bits(row)
    naive,       \* result and instrumentation of eval_rules_naive
    mask,        \* result and instrumentation of eval_rules_mask
    overflow_checks, \* the build profile: TRUE when shifts are overflow-checked
    fields,      \* the field attributes the derive has consumed, in order
    pred_names,  \* derive_yuck_facts: Vec<String> of registered names
    extract_stmts, \* derive_yuck_facts: the statements of the generated to_bits
    derived,     \* what derive_yuck_facts returned
    runner,      \* outcome of runner's main
    generated    \* the Rule the last call of gen_rule returned, with its draws

demo_vars == <<phase, rules, row, bitset, naive, mask>>
schema_vars == <<overflow_checks, fields, pred_names, extract_stmts, derived, runner>>
vars == <<phase, rules, row, bitset, naive, mask,
          overflow_checks, fields, pred_names, extract_stmts, derived, runner,
          generated>>

\* ------------------------------------------------------------ u64 helpers
Indices == 0 .. (N_PRED - 1)

Pow2(n) == 2 ^ n

\* 1u64 << i; the demo only shifts by i < N_PRED <= 64, so no overflow
Shl1(i) == Pow2(i)

\* a & b on non-negative integers, bit by bit
RECURSIVE BitAnd(_, _)
BitAnd(a, b) ==
    IF a = 0 \/ b = 0 THEN 0
    ELSE (IF a % 2 = 1 /\ b % 2 = 1 THEN 1 ELSE 0) + 2 * BitAnd(a \div 2, b \div 2)

\* a | b on non-negative integers, bit by bit
RECURSIVE BitOr(_, _)
BitOr(a, b) ==
    IF a = 0 THEN b
    ELSE IF b = 0 THEN a
    ELSE (IF a % 2 = 1 \/ b % 2 = 1 THEN 1 ELSE 0) + 2 * BitOr(a \div 2, b \div 2)

\* ------------------------------------------------------------- rule model
\* for &i in &idx { m |= 1u64 << i; }
RECURSIVE mask_of_from(_, _, _)
mask_of_from(idx, k, m) ==
    IF k > Len(idx) THEN m
    ELSE mask_of_from(idx, k + 1, BitOr(m, Shl1(idx[k])))

mask_of(idx) == mask_of_from(idx, 1, 0)

\* Term { req_mask, forb_mask, req_idx, forb_idx } as gen_rule builds it
Term(req_idx, forb_idx) ==
    [req_mask |-> mask_of(req_idx), forb_mask |-> mask_of(forb_idx),
     req_idx |-> req_idx, forb_idx |-> forb_idx]

\* ---------------------------------------------------------------- to_bits
to_bits_wrong(r) == LET
    RECURSIVE loop(_, _)
    loop(i, s) == IF i >= N_PRED THEN s
                  ELSE loop(i + 1, IF r[i] THEN Shl1(i) ELSE s)
    IN loop(0, 0)

RECURSIVE to_bits_loop(_, _, _)
to_bits_loop(r, i, s) ==
    IF i >= N_PRED THEN s
    ELSE to_bits_loop(r, i + 1, IF r[i] THEN BitOr(s, Shl1(i)) ELSE s)

to_bits(r) == to_bits_loop(r, 0, 0)

\* ------------------------------------------------------------- evaluators
\* lines 199-203: the scan of req_idx.  The `continue` sits in the innermost
\* loop, the one over req_idx, so a false required entry only moves on to
\* the next index; the scan always falls through to the forbidden check.
RECURSIVE naive_req_scan(_, _, _)
naive_req_scan(t, r, k) ==
    IF k > Len(t.req_idx) THEN "fallthrough"
    ELSE IF ~r[t.req_idx[k]] THEN naive_req_scan(t, r, k + 1)
    ELSE naive_req_scan(t, r, k + 1)

\* lines 205-211: any_forb
RECURSIVE naive_any_forb(_, _, _)
naive_any_forb(t, r, k) ==
    IF k > Len(t.forb_idx) THEN FALSE
    ELSE IF r[t.forb_idx[k]] THEN TRUE
    ELSE naive_any_forb(t, r, k + 1)

\* lines 198-215: TRUE iff the body of the term loop reaches `continue 'rule`
naive_term(t, r) ==
    /\ naive_req_scan(t, r, 1) = "fallthrough"
    /\ ~naive_any_forb(t, r, 1)

\* The two loops of eval_rules_naive from rule ri, term ti on.  `tested` is
\* the instrumentation: the terms tested so far, in order, each with the
\* outcome of its test.
RECURSIVE naive_walk(_, _, _, _, _)
naive_walk(rs, r, ri, ti, tested) ==
    IF ri > Len(rs) THEN [out |-> TRUE, tested |-> tested]
    ELSE IF ti > Len(rs[ri].terms) THEN [out |-> FALSE, tested |-> tested]
    ELSE IF naive_term(rs[ri].terms[ti], r)
         THEN naive_walk(rs, r, ri + 1, 1, Append(tested, <<ri, ti, TRUE>>))
         ELSE naive_walk(rs, r, ri, ti + 1, Append(tested, <<ri, ti, FALSE>>))

eval_rules_naive(rs, r) == naive_walk(rs, r, 1, 1, <<>>)

\* line 228 with the forbidden comparison left out
mask_term_no_forb(t, state) ==
    BitAnd(state, t.req_mask) = t.req_mask

\* line 228
mask_term(t, state) ==
    /\ BitAnd(state, t.req_mask) = t.req_mask
    /\ BitAnd(state, t.forb_mask) = 0

\* eval_rules_mask with `return false` replaced by moving on to the next rule
RECURSIVE mask_walk_no_return(_, _, _, _, _)
mask_walk_no_return(rs, state, ri, ti, tested) ==
    IF ri > Len(rs) THEN [out |-> TRUE, tested |-> tested]
    ELSE IF ti > Len(rs[ri].terms)
         THEN mask_walk_no_return(rs, state, ri + 1, 1, tested)
    ELSE IF mask_term(rs[ri].terms[ti], state)
         THEN mask_walk_no_return(rs, state, ri + 1, 1, Append(tested, <<ri, ti, TRUE>>))
         ELSE mask_walk_no_return(rs, state, ri, ti + 1, Append(tested, <<ri, ti, FALSE>>))

\* eval_rules_mask with `continue 'rule` replaced by `return true`
RECURSIVE mask_walk_return_true(_, _, _, _, _)
mask_walk_return_true(rs, state, ri, ti, tested) ==
    IF ri > Len(rs) THEN [out |-> TRUE, tested |-> tested]
    ELSE IF ti > Len(rs[ri].terms) THEN [out |-> FALSE, tested |-> tested]
    ELSE IF mask_term(rs[ri].terms[ti], state)
         THEN [out |-> TRUE, tested |-> Append(tested, <<ri, ti, TRUE>>)]
         ELSE mask_walk_return_true(rs, state, ri, ti + 1, Append(tested, <<ri, ti, FALSE>>))

\* the two loops of eval_rules_mask from rule ri, term ti on
RECURSIVE mask_walk(_, _, _, _, _)
mask_walk(rs, state, ri, ti, tested) ==
    IF ri > Len(rs) THEN [out |-> TRUE, tested |-> tested]
    ELSE IF ti > Len(rs[ri].terms) THEN [out |-> FALSE, tested |-> tested]
    ELSE IF mask_term(rs[ri].terms[ti], state)
         THEN mask_walk(rs, state, ri + 1, 1, Append(tested, <<ri, ti, TRUE>>))
         ELSE mask_walk(rs, state, ri, ti + 1, Append(tested, <<ri, ti, FALSE>>))

eval_rules_mask(rs, state) == mask_walk(rs, state, 1, 1, <<>>)

\* ------------------------------------------------------------ the inputs
\* every [bool; N_PRED]
Rows == [Indices -> BOOLEAN]

\* every Vec<u8> of predicate indices of length at most MaxLen
IdxLists == UNION {[1 .. n -> Indices] : n \in 0 .. MaxLen}

\* the terms that rule sets of several rules are made of: those of the two
\* concrete scenarios (required {0,1}; required {0}, forbidden {2};
\* required {1})
TermPool ==
    { Term(<<0, 1>>, <<>>), Term(<<0>>, <<2>>), Term(<<1>>, <<>>) }

RECURSIVE CountTerms(_, _)
CountTerms(rs, k) ==
    IF k > Len(rs) THEN 0 ELSE Len(rs[k].terms) + CountTerms(rs, k + 1)

NoResult == [out |-> FALSE, tested |-> <<>>]

\* ---------------------------------------------------------------- actions
\* main, lines 28-31
main_assert ==
    /\ phase = "start"
    /\ phase' = IF N_PRED <= BitsetWidth THEN "build" ELSE "panicked"
    /\ UNCHANGED <<rules, row, bitset, naive, mask, schema_vars, generated>>

\* a rule set begins its next rule (gen_rules collects one more Rule)
push_rule ==
    /\ phase = "build"
    /\ Len(rules) < MaxRules
    /\ rules' = Append(rules, [terms |-> <<>>])
    /\ UNCHANGED <<phase, row, bitset, naive, mask, schema_vars, generated>>

\* terms.push(Term { .. }) onto the rule under construction
push_term ==
    /\ phase = "build"
    /\ Len(rules) > 0
    /\ CountTerms(rules, 1) < MaxTerms
    /\ \E t \in TermPool :
         rules' = [rules EXCEPT ![Len(rules)].terms = Append(@, t)]
    /\ UNCHANGED <<phase, row, bitset, naive, mask, schema_vars, generated>>

\* a rule set of one rule with one term, built from any two index lists
hand_built ==
    /\ phase = "build"
    /\ rules = <<>>
    /\ \E req_idx \in IdxLists, forb_idx \in IdxLists :
         rules' = <<[terms |-> <<Term(req_idx, forb_idx)>>]>>
    /\ phase' = "frozen"
    /\ UNCHANGED <<row, bitset, naive, mask, schema_vars, generated>>

\* main, lines 39-45: an event row and its bitset
encode ==
    /\ phase \in {"build", "frozen"}
    /\ \E r \in Rows :
         /\ row' = r
         /\ bitset' = to_bits(r)
    /\ phase' = "encoded"
    /\ UNCHANGED <<rules, naive, mask, schema_vars, generated>>

\* main, lines 50-51: both evaluators on the same sample
sample ==
    /\ phase = "encoded"
    /\ naive' = eval_rules_naive(rules, row)
    /\ mask' = eval_rules_mask(rules, bitset)
    /\ phase' = "done"
    /\ UNCHANGED <<rules, row, bitset, schema_vars, generated>>

\* ======================================================================
\* logicbits_macros: #[derive(KitchenNightmares)], and runner's main
\* ======================================================================
\* Option<T>: None is <<>>, Some(v) is <<v>>
None == <<>>
Some(v) == <<v>>

\* A u64 of the generated code is the set of its set bit positions, a subset
\* of 0 .. BitsetWidth-1: | is \cup, & is \cap, 0 is {}.  (The generated code only
\* ever shifts a 1, ORs, ANDs and compares, and bit 63 is beyond TLC's
\* integers.)
\* __Pred::mask, line 118: 1u64 << (self as u8).  A shift by 64 or more
\* panics where shifts are overflow-checked and otherwise shifts by the
\* amount modulo 64.
pred_mask(idx) ==
    IF idx < BitsetWidth THEN [tag |-> "ok", bits |-> {idx}]
    ELSE IF overflow_checks THEN [tag |-> "panic", bits |-> {}]
    ELSE [tag |-> "ok", bits |-> {idx % BitsetWidth}]

\* ----------------------------------------------------- parse_field_attrs
DigitChars == <<"0", "1", "2", "3", "4", "5", "6", "7", "8", "9">>

IsDigit(c) == \E d \in 1 .. 10 : DigitChars[d] = c

DigitVal(c) == (CHOOSE d \in 1 .. 10 : DigitChars[d] = c) - 1

\* str::trim on a token given as its characters
RECURSIVE trim(_)
trim(tok) ==
    IF tok # <<>> /\ Head(tok) = " " THEN trim(Tail(tok))
    ELSE IF tok # <<>> /\ tok[Len(tok)] = " " THEN trim(SubSeq(tok, 1, Len(tok) - 1))
    ELSE tok

RECURSIVE digits_value(_, _, _)
digits_value(tok, k, acc) ==
    IF k > Len(tok) THEN acc
    ELSE digits_value(tok, k + 1, 10 * acc + DigitVal(tok[k]))

\* str::parse::<u32>: an optional '+', then one or more decimal digits.
\* (The tokens of the model are short: none exceeds u32::MAX.)
parse_u32(tok) ==
    LET body == IF tok # <<>> /\ Head(tok) = "+" THEN Tail(tok) ELSE tok
    IN IF body = <<>> \/ \E k \in 1 .. Len(body) : ~IsDigit(body[k])
       THEN None
       ELSE Some(digits_value(body, 1, 0))

\* lines 242-246: for tok in s.value().split(',') { if let Ok(v) = .. { heat.push(v) } }
\* The heat string is given as its comma-separated tokens.
parse_heat(toks) ==
    LET parsed == [k \in 1 .. Len(toks) |-> parse_u32(trim(toks[k]))]
        pushed == SelectSeq(parsed, LAMBDA v : v # None)
    IN [k \in 1 .. Len(pushed) |-> pushed[k][1]]

FieldAttr(kind, pred, eq, heat) ==
    [kind |-> kind, pred |-> pred, eq |-> eq, heat |-> heat]

\* lines 191-258, for one #[yuck(..)] attribute: the FieldAttr values pushed.
\* `kitchen(..)` yields FieldAttr::Diner and `diner(..)` FieldAttr::Kitchen.
parse_field_attrs(raw) ==
    IF raw.ident = "kitchen" THEN
        IF raw.pred # None THEN <<FieldAttr("Diner", raw.pred[1], "", <<>>)>> ELSE <<>>
    ELSE IF raw.ident = "diner" THEN
        IF raw.pred # None /\ raw.eq # None
        THEN <<FieldAttr("Kitchen", raw.pred[1], raw.eq[1], <<>>)>> ELSE <<>>
    ELSE IF raw.ident = "serve" THEN
        IF raw.pred_ns # None THEN <<FieldAttr("Serve", raw.pred_ns[1], "", <<>>)>> ELSE <<>>
    ELSE IF raw.ident = "largeness" THEN
        IF raw.pred_prefix # None
        THEN <<FieldAttr("Largeness", raw.pred_prefix[1], "", parse_heat(raw.heat))>>
        ELSE <<>>
    ELSE <<>>

\* ---------------------------------------------------------------- register
\* lines 161-165
register(acc, name) ==
    IF ~(\E k \in 1 .. Len(acc) : acc[k] = name) THEN Append(acc, name) ELSE acc

Stmt(kind, field, pred, eq, t) ==
    [kind |-> kind, field |-> field, pred |-> pred, eq |-> eq, t |-> t]

\* lines 73-80: one register and one statement per threshold
RECURSIVE largeness_loop(_, _, _, _, _, _)
largeness_loop(fname, pred_prefix, heat, k, names, stmts) ==
    IF k > Len(heat) THEN [names |-> names, stmts |-> stmts]
    ELSE LET name == pred_prefix \o ToString(heat[k])
             names2 == register(names, name)
             stmts2 == Append(stmts, Stmt("Largeness", fname, name, "", heat[k]))
         \* (reading the lengths computes this iteration's Vecs before the next)
         IN IF Len(names2) > 0 /\ Len(stmts2) > 0
            THEN largeness_loop(fname, pred_prefix, heat, k + 1, names2, stmts2)
            ELSE [names |-> names2, stmts |-> stmts2]

\* ---------------------------------------------------- the generated items
\* line 106: idx = i as u8, for the variant at (zero-based) position i
variant_idx(i) == i % 256

\* position (1-based) of the first arm of pred_mask_by_name that matches, or 0
RECURSIVE first_arm(_, _, _)
first_arm(names, name, k) ==
    IF k > Len(names) THEN 0
    ELSE IF names[k] = name THEN k
    ELSE first_arm(names, name, k + 1)

\* lines 129-134 with the arms of lines 103-110
pred_mask_by_name(names, name) ==
    LET k == first_arm(names, name, 1)
    IN IF k = 0 THEN [tag |-> "None", bits |-> {}]
       ELSE LET m == pred_mask(variant_idx(k - 1))
            IN IF m.tag = "panic" THEN m ELSE [tag |-> "Some", bits |-> m.bits]

\* str::eq_ignore_ascii_case on the strings of the model
AsciiLower(str) ==
    IF str \in {"ACME", "Acme", "acme"} THEN "acme" ELSE str

eq_ignore_ascii_case(a, b) == AsciiLower(a) = AsciiLower(b)

\* the condition of one generated statement on the event e (lines 56, 64-69, 78, 86)
stmt_cond(st, e) ==
    IF st.kind = "Diner" THEN e[st.field]
    ELSE IF st.kind = "Kitchen" THEN eq_ignore_ascii_case(e[st.field], st.eq)
    ELSE IF st.kind = "Largeness" THEN e[st.field] > st.t
    ELSE (e[st.field] >= 500 /\ e[st.field] < 600)

\* lines 141-145: the generated to_bits
RECURSIVE gen_to_bits(_, _, _, _, _)
gen_to_bits(names, stmts, e, k, acc) ==
    IF k > Len(stmts) THEN [tag |-> "ok", bits |-> acc]
    ELSE IF stmt_cond(stmts[k], e)
         THEN LET m == pred_mask(variant_idx(first_arm(names, stmts[k].pred, 1) - 1))
              IN IF m.tag = "panic" THEN m
                 ELSE gen_to_bits(names, stmts, e, k + 1, acc \cup m.bits)
         ELSE gen_to_bits(names, stmts, e, k + 1, acc)

\* ------------------------------------------------------ the derive's input
Raw(ident, pred, eq, pred_ns, pred_prefix, heat) ==
    [ident |-> ident, pred |-> pred, eq |-> eq, pred_ns |-> pred_ns,
     pred_prefix |-> pred_prefix, heat |-> heat]

RECURSIVE to_chars(_)
to_chars(n) ==
    IF n < 10 THEN <<DigitChars[n + 1]>>
    ELSE Append(to_chars(n \div 10), DigitChars[(n % 10) + 1])

\* runner/src/main.rs, lines 4-18: Event's fields and their attributes
EventFields == <<
    [field |-> "diner",
     raw |-> Raw("diner", Some("DINER_ACME"), Some("acme"), None, None, <<>>)],
    [field |-> "big_group",
     raw |-> Raw("kitchen", Some("BIG_GROUP"), None, None, None, <<>>)],
    [field |-> "serve",
     raw |-> Raw("serve", None, None, Some("NO_SERVE"), None, <<>>)],
    [field |-> "heat",
     raw |-> Raw("largeness", None, None, None, Some("LRGNSS_ORDER_"),
                 <<to_chars(100), to_chars(200), to_chars(600)>>)] >>

\* a heat string with one threshold more than the bitset has bits
WideHeat == [i \in 1 .. (BitsetWidth + 1) |-> to_chars(i)]

\* the field attributes a derived struct is made of: Event's, and variations
SchemaInputs ==
    {EventFields[k] : k \in 1 .. Len(EventFields)} \cup
    { [field |-> "diner",
       raw |-> Raw("diner", Some("DINER_ACME"), None, None, None, <<>>)],
      [field |-> "big_group",
       raw |-> Raw("kitchen", Some("DINER_ACME"), None, None, None, <<>>)],
      [field |-> "heat",
       raw |-> Raw("largeness", None, None, None, Some("LRGNSS_ORDER_"),
                   <<<<" ", "2", "0", "0">>, <<"x">>, <<"+", "2", "0", "0">>, <<>>>>)],
      [field |-> "heat",
       raw |-> Raw("largeness", None, None, None, Some("H"), WideHeat)] }

\* ------------------------------------------------------ derive_yuck_facts
\* lines 46-51 and 52-58: the next field attribute is a FieldAttr::Diner
derive_diner ==
    /\ derived = "deriving"
    /\ Len(fields) < MaxAttrs
    /\ \E inp \in SchemaInputs :
         LET fa == parse_field_attrs(inp.raw) IN
         /\ fa # <<>>
         /\ fa[1].kind = "Diner"
         /\ fields' = Append(fields, inp)
         /\ pred_names' = register(pred_names, fa[1].pred)
         /\ extract_stmts' =
              Append(extract_stmts, Stmt("Diner", inp.field, fa[1].pred, "", 0))
    /\ UNCHANGED <<generated, demo_vars, overflow_checks, derived, runner>>

\* lines 59-71: FieldAttr::Kitchen
derive_kitchen ==
    /\ derived = "deriving"
    /\ Len(fields) < MaxAttrs
    /\ \E inp \in SchemaInputs :
         LET fa == parse_field_attrs(inp.raw) IN
         /\ fa # <<>>
         /\ fa[1].kind = "Kitchen"
         /\ fields' = Append(fields, inp)
         /\ pred_names' = register(pred_names, fa[1].pred)
         /\ extract_stmts' =
              Append(extract_stmts, Stmt("Kitchen", inp.field, fa[1].pred, fa[1].eq, 0))
    /\ UNCHANGED <<generated, demo_vars, overflow_checks, derived, runner>>

\* lines 72-81: FieldAttr::Largeness
derive_largeness ==
    /\ derived = "deriving"
    /\ Len(fields) < MaxAttrs
    /\ \E inp \in SchemaInputs :
         LET fa == parse_field_attrs(inp.raw) IN
         /\ fa # <<>>
         /\ fa[1].kind = "Largeness"
         /\ fields' = Append(fields, inp)
         /\ LET out == largeness_loop(inp.field, fa[1].pred, fa[1].heat, 1,
                                      pred_names, extract_stmts)
            IN pred_names' = out.names /\ extract_stmts' = out.stmts
    /\ UNCHANGED <<generated, demo_vars, overflow_checks, derived, runner>>

\* lines 82-88: FieldAttr::Serve
derive_serve ==
    /\ derived = "deriving"
    /\ Len(fields) < MaxAttrs
    /\ \E inp \in SchemaInputs :
         LET fa == parse_field_attrs(inp.raw) IN
         /\ fa # <<>>
         /\ fa[1].kind = "Serve"
         /\ fields' = Append(fields, inp)
         /\ pred_names' = register(pred_names, fa[1].pred)
         /\ extract_stmts' =
              Append(extract_stmts, Stmt("Serve", inp.field, fa[1].pred, "", 0))
    /\ UNCHANGED <<generated, demo_vars, overflow_checks, derived, runner>>

\* line 50 when parse_field_attrs yields nothing for the attribute
derive_nothing ==
    /\ derived = "deriving"
    /\ Len(fields) < MaxAttrs
    /\ \E inp \in SchemaInputs :
         /\ parse_field_attrs(inp.raw) = <<>>
         /\ fields' = Append(fields, inp)
    /\ UNCHANGED <<generated, demo_vars, overflow_checks, pred_names, extract_stmts, derived, runner>>

\* lines 93-149: compile_error for an empty pred_names, else the expansion
derive_expand ==
    /\ derived = "deriving"
    /\ derived' = IF pred_names = <<>> THEN "compile_error" ELSE "expanded"
    /\ UNCHANGED <<generated, demo_vars, overflow_checks, fields, pred_names, extract_stmts, runner>>

\* ------------------------------------------------------------ runner main
\* lines 28-33
TheEvent == [diner |-> "acme", big_group |-> FALSE, serve |-> 200, heat |-> 230]

\* Option::expect's panic carries exactly the message it was given
ExpectPayload == <<"unknown pred">>

ShiftPayload == <<"attempt to shift left with overflow">>

\* lines 54-56 and 57-59: for n in names { acc |= pred_mask_by_name(&n).expect(..) }
RECURSIVE or_masks(_, _, _, _)
or_masks(names, list, k, acc) ==
    IF k > Len(list) THEN [tag |-> "ok", bits |-> acc, payload |-> <<>>]
    ELSE LET m == pred_mask_by_name(names, list[k])
         IN IF m.tag = "None" THEN [tag |-> "panic", bits |-> {}, payload |-> ExpectPayload]
            ELSE IF m.tag = "panic"
                 THEN [tag |-> "panic", bits |-> {}, payload |-> ShiftPayload]
            ELSE or_masks(names, list, k + 1, acc \cup m.bits)

Panicked(policy, payload) ==
    [status |-> "panicked", policy |-> policy, bits |-> {}, req |-> {}, forb |-> {},
     printed |-> <<>>, payload |-> payload]

\* lines 35-62, for the PolicySpec `policy`
run_main(names, stmts, policy) ==
    LET b == gen_to_bits(names, stmts, TheEvent, 1, {}) IN
    IF b.tag = "panic" THEN Panicked(policy, ShiftPayload) ELSE
    LET req == or_masks(names, policy.all, 1, {}) IN
    IF req.tag = "panic" THEN Panicked(policy, req.payload) ELSE
    LET forb == or_masks(names, policy.none, 1, {}) IN
    IF forb.tag = "panic" THEN Panicked(policy, forb.payload) ELSE
    [status |-> "matched", policy |-> policy, bits |-> b.bits,
     req |-> req.bits, forb |-> forb.bits,
     printed |-> << (b.bits \cap req.bits) = req.bits /\ (b.bits \cap forb.bits) = {} >>,
     payload |-> <<>>]

PolicyNames == {"DINER_ACME", "LRGNSS_ORDER_200", "BIG_GROUP", "NOPE"}

NameLists == UNION {[1 .. n -> PolicyNames] : n \in 0 .. MaxPolicyLen}

Idle == [status |-> "idle", policy |-> [all |-> <<>>, none |-> <<>>], bits |-> {},
         req |-> {}, forb |-> {}, printed |-> <<>>, payload |-> <<>>]

\* runner's main, compiled against the derive of Event
runner_main ==
    /\ derived = "expanded"
    /\ fields = EventFields
    /\ runner.status = "idle"
    /\ \E all \in NameLists, none \in NameLists :
         runner' = run_main(pred_names, extract_stmts, [all |-> all, none |-> none])
    /\ UNCHANGED <<generated, demo_vars, overflow_checks, fields, pred_names, extract_stmts, derived>>


\* ======================================================================
\* if-test: gen_rule and its samplers
\* ======================================================================
\* the sequences of k distinct elements of the set S
RECURSIVE DistinctSeqs(_, _)
DistinctSeqs(S, k) ==
    IF k = 0 THEN {<<>>}
    ELSE UNION {{Append(q, x) : x \in S \ {q[j] : j \in 1 .. Len(q)}} :
                  q \in DistinctSeqs(S, k - 1)}

\* lines 139-146: every Vec the call can return, over the draws of rng.
\* rand::seq::index::sample(rng, N_PRED, k) yields k distinct indices below
\* N_PRED in some order, and panics for k > N_PRED (no Vec is returned).
sample_distinct(k) ==
    IF k = 0 THEN {<<>>}
    ELSE IF k > N_PRED THEN {}
    ELSE DistinctSeqs(Indices, k)

\* Vec::swap_remove(idx), idx zero-based: the Vec without element idx, the
\* last element moved into its place
swap_remove(pool, idx) ==
    IF idx + 1 = Len(pool) THEN SubSeq(pool, 1, Len(pool) - 1)
    ELSE SubSeq([pool EXCEPT ![idx + 1] = pool[Len(pool)]], 1, Len(pool) - 1)

\* lines 156-162: the rest of the pick loop with `left` iterations to go;
\* every `out` it can end with, over the draws of rng
RECURSIVE pick_loop(_, _, _)
pick_loop(pool, left, out) ==
    IF left = 0 \/ pool = <<>> THEN {out}
    ELSE UNION {pick_loop(swap_remove(pool, idx), left - 1, Append(out, pool[idx + 1])) :
                  idx \in 0 .. (Len(pool) - 1)}

\* sample_distinct_excluding with pool.retain(..) left out
sample_distinct_not_excluding(k, exclude) ==
    IF k = 0 THEN {<<>>}
    ELSE pick_loop([j \in 1 .. N_PRED |-> j - 1], k, <<>>)

\* lines 148-164: every Vec the call can return, over the draws of rng
sample_distinct_excluding(k, exclude) ==
    IF k = 0 THEN {<<>>}
    ELSE LET all == [j \in 1 .. N_PRED |-> j - 1]
             pool == SelectSeq(all, LAMBDA i :
                        ~(\E j \in 1 .. Len(exclude) : exclude[j] = i))
         IN pick_loop(pool, k, <<>>)

\* lines 113-134: every (term, draws) one iteration of gen_rule's loop can push
GenTerms ==
    UNION { UNION { { [term |-> Term(req_idx, forb_idx),
                       draw |-> [k_req |-> k_req, k_forb |-> k_forb]] :
                      forb_idx \in sample_distinct_excluding(k_forb, req_idx) } :
                    req_idx \in sample_distinct(k_req) } :
            k_req \in 0 .. MaxLen, k_forb \in 0 .. MaxLen }

\* line 9: the range n_terms is drawn from, 2..=4 in the source; kept at one
\* or two terms here, every term of a rule being built by the same loop body
TERMS_PER_RULE == 1 .. 2

NoRule == [terms |-> <<>>, draws |-> <<>>]

\* lines 109-137: the call of gen_rule in a run, n_terms and the samples
\* drawn from rng
gen_rule ==
    /\ phase = "build"
    /\ phase' = "generated"
    /\ \E n_terms \in TERMS_PER_RULE :
         \E ts \in [1 .. n_terms -> GenTerms] :
            generated' = [terms |-> [j \in 1 .. n_terms |-> ts[j].term],
                          draws |-> [j \in 1 .. n_terms |-> ts[j].draw]]
    /\ UNCHANGED <<rules, row, bitset, naive, mask, schema_vars>>


DemoInit ==
    /\ phase = "start"
    /\ rules = <<>>
    /\ row = [i \in Indices |-> FALSE]
    /\ bitset = 0
    /\ naive = NoResult
    /\ mask = NoResult
    /\ generated = NoRule

SchemaIdle ==
    /\ fields = <<>>
    /\ pred_names = <<>>
    /\ extract_stmts = <<>>
    /\ derived = "deriving"
    /\ runner = Idle

\* the demo is run as its own tip says, with --release
Init ==
    /\ DemoInit
    /\ overflow_checks = FALSE
    /\ SchemaIdle

\* the derive and the runner, under either build profile
InitSchema ==
    /\ DemoInit
    /\ overflow_checks \in BOOLEAN
    /\ SchemaIdle

Next ==
    \/ main_assert
    \/ push_rule
    \/ push_term
    \/ hand_built
    \/ encode
    \/ sample

Spec == Init /\ [][Next]_vars

NextSchema ==
    \/ derive_diner
    \/ derive_kitchen
    \/ derive_largeness
    \/ derive_serve
    \/ derive_nothing
    \/ derive_expand
    \/ runner_main

SpecSchema == InitSchema /\ [][NextSchema]_vars

NextGen ==
    \/ main_assert
    \/ gen_rule

SpecGen == Init /\ [][NextGen]_vars

\* ------------------------------------------------- vocabulary of the claims
\* bit i of the non-negative integer x
Bit(x, i) == (x \div Pow2(i)) % 2

\* i occurs in the index list idx
InIdx(idx, i) == \E k \in 1 .. Len(idx) : idx[k] = i

\* the term as the rule model defines it: all required true, none forbidden true
TermMatchesRow(t, r) ==
    /\ \A k \in 1 .. Len(t.req_idx) : r[t.req_idx[k]]
    /\ \A k \in 1 .. Len(t.forb_idx) : ~r[t.forb_idx[k]]

\* the two comparisons of the mask test, bit by bit
TermMatchesBits(t, state) ==
    /\ \A i \in 0 .. N_PRED : Bit(t.req_mask, i) = 1 => Bit(state, i) = 1
    /\ \A i \in 0 .. N_PRED : ~(Bit(t.forb_mask, i) = 1 /\ Bit(state, i) = 1)

Degenerate(t) == \E i \in Indices : InIdx(t.req_idx, i) /\ InIdx(t.forb_idx, i)

Single(t) == <<[terms |-> <<t>>]>>

Flip(r, i) == [r EXCEPT ![i] = ~@]

\* C1: whenever both evaluators have run on the same rule set and the same
\* row (the mask evaluator on to_bits(row)), they return the same boolean.
C1_Equivalence ==
    phase = "done" => naive.out = mask.out

\* C2: eval_rules_naive returns true iff every rule has a term all of whose
\* required indices are true in the row and none of whose forbidden indices
\* is; in particular one rule with the one term req {0,1}, forb {} is false
\* on the row that has only index 0 true.
C2_NaiveSemantics ==
    phase = "done" =>
        /\ naive.out = (\A ri \in 1 .. Len(rules) :
                          \E ti \in 1 .. Len(rules[ri].terms) :
                             TermMatchesRow(rules[ri].terms[ti], row))
        /\ ( /\ rules = Single(Term(<<0, 1>>, <<>>))
             /\ row = [i \in Indices |-> i = 0] ) => naive.out = FALSE

\* C3: eval_rules_mask returns true iff every rule has a term whose required
\* bits are all set in the state and whose forbidden bits are all clear.
C3_MaskSemantics ==
    phase = "done" =>
        mask.out = (\A ri \in 1 .. Len(rules) :
                      \E ti \in 1 .. Len(rules[ri].terms) :
                         TermMatchesBits(rules[ri].terms[ti], bitset))

C3_Witness ==
    /\ phase = "done"
    /\ Len(rules) = 2
    /\ mask.out
    /\ \E ti \in 1 .. Len(rules[1].terms) :
         /\ rules[1].terms[ti].req_mask # 0
         /\ rules[1].terms[ti].forb_mask # 0
         /\ mask_term(rules[1].terms[ti], bitset)
    /\ \E ti \in 1 .. Len(rules[2].terms) : ~mask_term(rules[2].terms[ti], bitset)

\* C4: bit i of to_bits(row) is 1 iff row[i] is true, every bit from N_PRED
\* up is 0, and the row is read back from the bitset (so no two rows have
\* the same bitset).
C4_ToBitsExact ==
    phase \in {"encoded", "done"} =>
        /\ \A i \in Indices : (Bit(bitset, i) = 1) = row[i]
        /\ bitset >= 0 /\ bitset < Pow2(N_PRED)
        /\ [i \in Indices |-> Bit(bitset, i) = 1] = row

C4_Witness ==
    /\ phase = "encoded"
    /\ row[0] /\ ~row[1] /\ row[N_PRED - 1]
    /\ bitset = 1 + Pow2(N_PRED - 1)

\* C5: when some rule consists only of terms whose required and forbidden
\* index lists share an index, both evaluators return false.
C5_DegenerateNeverMatches ==
    ( /\ phase = "done"
      /\ \E ri \in 1 .. Len(rules) :
           /\ Len(rules[ri].terms) > 0
           /\ \A ti \in 1 .. Len(rules[ri].terms) : Degenerate(rules[ri].terms[ti]) )
    => (~naive.out /\ ~mask.out)

\* C6: for every term of the rule set and the row under evaluation, under
\* each evaluator: if the term matches and a forbidden index that is false is
\* flipped to true the term no longer matches, and flipping an index that is
\* in neither list of the term leaves the result as it was.
C6_ForbiddenMonotone ==
    phase = "done" =>
        \A ri \in 1 .. Len(rules) : \A ti \in 1 .. Len(rules[ri].terms) :
            LET t == rules[ri].terms[ti]
                n0 == eval_rules_naive(Single(t), row).out
                m0 == eval_rules_mask(Single(t), to_bits(row)).out
            IN \A i \in Indices :
                LET n1 == eval_rules_naive(Single(t), Flip(row, i)).out
                    m1 == eval_rules_mask(Single(t), to_bits(Flip(row, i))).out
                IN /\ (InIdx(t.forb_idx, i) /\ ~row[i]) =>
                        /\ n0 => ~n1
                        /\ m0 => ~m1
                   /\ (~InIdx(t.req_idx, i) /\ ~InIdx(t.forb_idx, i)) =>
                        /\ n1 = n0
                        /\ m1 = m0

C6_Witness ==
    /\ phase = "done"
    /\ Len(rules) = 1 /\ Len(rules[1].terms) = 1
    /\ naive.out /\ mask.out
    /\ Len(rules[1].terms[1].req_idx) > 0
    /\ \E i \in Indices : InIdx(rules[1].terms[1].forb_idx, i) /\ ~row[i]
    /\ \E i \in Indices : /\ ~InIdx(rules[1].terms[1].req_idx, i)
                          /\ ~InIdx(rules[1].terms[1].forb_idx, i)

\* what C10 says of one evaluator's run: res is its result and instrumentation,
\* test[ri][ti] the outcome of its term test on term ti of rule ri
ShortCircuit(res, test) ==
    LET tested == res.tested
        n == Len(tested)
    IN  /\ n > 0 => (tested[1][1] = 1 /\ tested[1][2] = 1)
        /\ \A k \in 1 .. n :
             /\ tested[k][1] \in 1 .. Len(rules)
             /\ tested[k][2] \in 1 .. Len(rules[tested[k][1]].terms)
             /\ tested[k][3] = test[tested[k][1]][tested[k][2]]
        /\ \A k \in 1 .. (n - 1) :
             IF tested[k][3]
             THEN tested[k + 1][1] = tested[k][1] + 1 /\ tested[k + 1][2] = 1
             ELSE tested[k + 1][1] = tested[k][1] /\ tested[k + 1][2] = tested[k][2] + 1
        /\ res.out =>
             \A ri \in 1 .. Len(rules) : \E k \in 1 .. n : tested[k][1] = ri /\ tested[k][3]
        /\ ~res.out =>
             \E ri \in 1 .. Len(rules) :
                /\ \A ti \in 1 .. Len(rules[ri].terms) :
                      \E k \in 1 .. n : tested[k] = <<ri, ti, FALSE>>
                /\ \A k \in 1 .. n : tested[k][1] <= ri

AttrNames(inp) ==
    LET fa == parse_field_attrs(inp.raw)
    IN IF fa = <<>> THEN <<>>
       ELSE IF fa[1].kind = "Largeness"
            THEN [k \in 1 .. Len(fa[1].heat) |-> fa[1].pred \o ToString(fa[1].heat[k])]
            ELSE <<fa[1].pred>>

\* every name passed to register so far, in order
RECURSIVE RegisterCalls(_)
RegisterCalls(fs) ==
    IF fs = <<>> THEN <<>>
    ELSE RegisterCalls(SubSeq(fs, 1, Len(fs) - 1)) \o AttrNames(fs[Len(fs)])

\* the elements of a sequence at their first occurrence
FirstOccurrences(seq) ==
    LET keep == {k \in 1 .. Len(seq) : \A j \in 1 .. (k - 1) : seq[j] # seq[k]}
        pos(n) == CHOOSE k \in keep : Cardinality({j \in keep : j <= k}) = n
    IN [n \in 1 .. Cardinality(keep) |-> seq[pos(n)]]

\* C7: when a name of the policy's all or none list is not in the predicate
\* space, main ends in a failure that names an unresolved name and prints no
\* match result; when every name resolves, req and forb are the OR of the
\* masks of the names of all and of none.
C7_PolicyCompile ==
    runner.status # "idle" =>
        LET all == runner.policy.all
            none == runner.policy.none
            names == all \o none
            unknown == {k \in 1 .. Len(names) :
                          pred_mask_by_name(pred_names, names[k]).tag = "None"}
        IN IF unknown # {}
           THEN /\ runner.status = "panicked"
                /\ runner.printed = <<>>
                /\ \E k \in unknown : \E j \in 1 .. Len(runner.payload) :
                      runner.payload[j] = names[k]
           ELSE /\ runner.status = "matched"
                /\ runner.req = UNION {pred_mask_by_name(pred_names, all[k]).bits :
                                         k \in 1 .. Len(all)}
                /\ runner.forb = UNION {pred_mask_by_name(pred_names, none[k]).bits :
                                          k \in 1 .. Len(none)}

\* C8: the demo's main does not get past its assertion with more than
\* BitsetWidth predicates, and the derive does not expand a schema that
\* registers more than BitsetWidth names.
C8_WidthRejected ==
    /\ phase \notin {"start", "panicked"} => N_PRED <= BitsetWidth
    /\ derived = "expanded" => Len(pred_names) <= BitsetWidth

\* C9: pred_names has no duplicate; it lists the registered names in the
\* order of their first registration; the indices given to its k names are
\* exactly 0 .. k-1; and no two names get the same index or the same mask.
C9_DenseUniqueIndices ==
    LET k == Len(pred_names) IN
    /\ \A i, j \in 1 .. k : i # j => pred_names[i] # pred_names[j]
    /\ pred_names = FirstOccurrences(RegisterCalls(fields))
    /\ {variant_idx(i - 1) : i \in 1 .. k} = 0 .. (k - 1)
    /\ \A i, j \in 1 .. k : i # j => variant_idx(i - 1) # variant_idx(j - 1)
    /\ derived = "expanded" =>
         \A i, j \in 1 .. k : i # j =>
            LET mi == pred_mask_by_name(pred_names, pred_names[i])
                mj == pred_mask_by_name(pred_names, pred_names[j])
            IN ~(mi.tag = "Some" /\ mj.tag = "Some" /\ mi.bits = mj.bits)

\* C11: every term of a rule gen_rule returns has req_mask with bit i set iff
\* i is in req_idx and forb_mask with bit i set iff i is in forb_idx; req_idx
\* and forb_idx hold no index twice and only indices below N_PRED; and the
\* two lists, and so the two masks, share no index, also when fewer indices
\* were left to pick from than were asked for.
C11_GenRuleTerms ==
    \A n \in 1 .. Len(generated.terms) :
        LET t == generated.terms[n] IN
        /\ \A i \in 0 .. N_PRED : (Bit(t.req_mask, i) = 1) = InIdx(t.req_idx, i)
        /\ \A i \in 0 .. N_PRED : (Bit(t.forb_mask, i) = 1) = InIdx(t.forb_idx, i)
        /\ t.req_mask < Pow2(N_PRED) /\ t.forb_mask < Pow2(N_PRED)
        /\ \A j, k \in 1 .. Len(t.req_idx) : j # k => t.req_idx[j] # t.req_idx[k]
        /\ \A j, k \in 1 .. Len(t.forb_idx) : j # k => t.forb_idx[j] # t.forb_idx[k]
        /\ \A j \in 1 .. Len(t.req_idx) : t.req_idx[j] \in Indices
        /\ \A j \in 1 .. Len(t.forb_idx) : t.forb_idx[j] \in Indices
        /\ ~(\E i \in Indices : InIdx(t.req_idx, i) /\ InIdx(t.forb_idx, i))
        /\ BitAnd(t.req_mask, t.forb_mask) = 0

C11_Witness ==
    \E n \in 1 .. Len(generated.terms) :
        /\ Len(generated.terms[n].req_idx) > 1
        /\ Len(generated.terms[n].forb_idx) > 0
        /\ Len(generated.terms[n].forb_idx) < generated.draws[n].k_forb

====
